---- MODULE Spec2Model ----
(***************************************************************************)
(* A model of the glue code of the density-learning tutorials:             *)
(*   - the molecule-selection loop of the A3MDnet tutorial                 *)
(*   - the training loop of the A3MDnet tutorial                           *)
(*   - LazyMeshGrid, load_molecule / ceil_float and the cube-writing loops *)
(*     of the DeepDFT tutorial                                             *)
(* Each part has its own specification (SpecMol, SpecTrain, ...); the      *)
(* variables of the other parts stay at their initial values.              *)
(***************************************************************************)
EXTENDS Integers, Sequences, FiniteSets, TLC

VARIABLES
    \* --- molecule selection (02-a3mdnet_tutorial.ipynb, cells 3-6)
    smi,          \* the list read from substances.smi (a molecule or None each)
    sel_idx,      \* number of elements of smi the for loop has consumed
    embed_mols,   \* the list embed_mols
    mol_files,    \* ./mol: file index -> molecule written
    sel_pc,       \* "loop" | "save" | "done" | "error"
    \* --- training loop (02-a3mdnet_tutorial.ipynb, cells "Training")
    epoch,        \* the loop variable i
    train_pc,     \* "test" | "train" | "done"
    opt_lr,       \* opt.param_groups[0]['lr'], in LrUnits
    schd,         \* the ReduceLROnPlateau object: best, num_bad_epochs
    reported,     \* the lr printed at the current epoch (NoLr before any)
    prev_reported,\* the lr printed at the epoch before
    checkpoints,  \* epochs whose model was saved by torch.save
    \* --- LazyMeshGrid (DeepDFT tutorial, part_000 cell 2)
    g_status,     \* "none" | "built" | "error" (the constructor raised)
    g_args,       \* the constructor's arguments: cell, grid_step, origin
    g_self,       \* the object: cell, scaled_grid_vectors, shape, origin
    g_made,       \* the object as the constructor returned it
    last_idx,     \* the argument of the last __getitem__ call
    last_out,     \* its outcome: raised, value, reads
    kept_idx,     \* the argument of the first call that returned positions
    kept_out,     \* the outcome of that call
    other_between,\* whether another index array was passed since that call
    \* --- cube-writing loops (part_000, Ex1 and dimer cells)
    cube_loop,    \* "ex1" | "dimer": which of the two cells runs
    cmols,        \* sugbench / dimer: the list of (name, density_dict)
    unwritable,   \* names whose cube path cannot be opened for writing
    c_i,          \* position in the list: cmols[c_i] is being handled
    c_pc,         \* "head" | "create" | "atom_model" | "probe" | "done" | "error"
    c_slice,      \* DensityGridIterator.current_slice
    cubewriter,   \* the name the variable cubewriter writes to ("" unbound)
    cube_files,   \* cube files created: name -> header shape and values
    xyz_files,    \* names of the xyz files written
    atom_evals,   \* per list position: calls of model.atom_model
    probe_evals,  \* per list position: calls of model.probe_model
    \* --- ceil_float (part_000)
    cf_x,         \* the argument x of the first call
    cf_step_size, \* the argument step_size of both calls
    cf_pc,        \* "idle" | "start" | "once" | "twice"
    cf_r,         \* ceil_float(x, step_size)
    cf_rr,        \* ceil_float(ceil_float(x, step_size), step_size)
    \* --- AIM analysis (part_000, atom identifier table and charge join)
    aim_xyz,      \* the element symbols of the xyz file's atom lines
    aim_files,    \* the .charge files: name -> the charges of its atom rows
    aim_pc,       \* "idle" | "read_mol" | "loop" | "done" | "error"
    aim_mol,      \* the table mol: rows of index, element, id
    aim_i,        \* loop counter i of enumerate
    aim_list,     \* the list aim_analysis the loop appends to
    aim_analysis, \* the table aim_analysis after pd.concat
    \* --- C-C bond scan (part_002)
    scan_coords,  \* per molecule handled: its mol.atom_coords()
    scan_pc,      \* "idle" | "loop" | "done"
    scan_i,       \* number of molecules handled
    scan_lines,   \* the lines given to ax.plot: label, marker, x, y
    scan_legend,  \* the labels ax.legend() lists
    scan_xlim,    \* the x limits of the axes (<<>>: matplotlib's automatic)
    scan_ylim,    \* the y limits of the axes (<<>>: matplotlib's automatic)
    scan_xlabel,  \* the label of the x axis
    scan_saved,   \* the path the figure was saved to ("" before savefig)
    \* --- load_molecule (part_000)
    lm_padded,    \* a, b, c of the cell after atoms.center(vacuum=vacuum)
    lm_grid_step, \* the argument grid_step
    lm_pc,        \* "idle" | "start" | "loaded"
    lm_counts,    \* per axis: math.ceil(x/step_size) inside ceil_float
    lm_cell,      \* a, b, c given to atoms.set_cell
    lm_shape      \* grid_position.shape[0:3]

molVars == <<smi, sel_idx, embed_mols, mol_files, sel_pc>>

trainVars == <<epoch, train_pc, opt_lr, schd, reported, prev_reported,
               checkpoints>>

gridVars == <<g_status, g_args, g_self, g_made, last_idx, last_out,
              kept_idx, kept_out, other_between>>

cubeVars == <<cube_loop, cmols, unwritable, c_i, c_pc, c_slice, cubewriter,
              cube_files, xyz_files, atom_evals, probe_evals>>

ceilVars == <<cf_x, cf_step_size, cf_pc, cf_r, cf_rr>>

aimVars == <<aim_xyz, aim_files, aim_pc, aim_mol, aim_i, aim_list,
             aim_analysis>>

scanVars == <<scan_coords, scan_pc, scan_i, scan_lines, scan_legend,
              scan_xlim, scan_ylim, scan_xlabel, scan_saved>>

loadVars == <<lm_padded, lm_grid_step, lm_pc, lm_counts, lm_cell, lm_shape>>

vars == <<molVars, trainVars, gridVars, cubeVars, ceilVars, aimVars, scanVars, loadVars>>

----------------------------------------------------------------------------
(* Small helpers                                                           *)

Repeat(x, n) == [k \in 1..n |-> x]

SeqsUpTo(S, n) == UNION {[1..k -> S] : k \in 0..n}

----------------------------------------------------------------------------
(* Molecule selection                                                      *)
(* A molecule is [atoms: the explicit atoms' symbols, implicit_hs: the     *)
(* number of hydrogens RDKit keeps implicit]; None is what MolFromSmiles   *)
(* returns for a line it cannot parse.                                     *)

MaxSmi == 2

MaxHeavyAtoms == 30

DocMaxAtoms == 40

\* MolFromSmiles' None: no atoms, and no hydrogen count
None == [atoms |-> <<>>, implicit_hs |-> -1]

AllowedElements == <<"C", "H", "N", "O">>

Mol(atoms, hs) == [atoms |-> atoms, implicit_hs |-> hs]

Molecules ==
    { Mol(<<"C">>, 4),                                      \* methane
      Mol(Repeat("C", 12) \o Repeat("O", 11), 22),          \* sucrose
      Mol(Repeat("C", 30), 62),                             \* 30 heavy atoms
      Mol(Repeat("C", 31), 64),                             \* 31 heavy atoms
      Mol(<<"C", "S", "C">>, 6),                            \* dimethyl sulfide
      Mol(<<"C", "Cl", "H">>, 2),                           \* explicit H, Cl
      Mol(<<"N", "C", "C", "O">>, 7) }                      \* ethanolamine

SmiInputs == SeqsUpTo(Molecules \cup {None}, MaxSmi)

InSeq(x, s) == \E k \in 1..Len(s) : s[k] = x

GetNumHeavyAtoms(mol) ==
    Cardinality({k \in 1..Len(mol.atoms) : mol.atoms[k] # "H"})

\* has_not_allowed_atoms as the markdown describes it: some atom of the
\* molecule is not an allowed element.
has_not_allowed_atoms_over_symbols(mol, allowed_elements) ==
    LET symbols == mol.atoms
    IN  \E k \in 1..Len(symbols) : ~InSeq(symbols[k], allowed_elements)

\* has_not_allowed_atoms as written: symbols is computed and not used, the
\* comprehension ranges over allowed_elements itself.
has_not_allowed_atoms(mol, allowed_elements) ==
    LET symbols == mol.atoms
    IN  \E k \in 1..Len(allowed_elements) :
            ~InSeq(allowed_elements[k], allowed_elements)

AddHs(mol) == Mol(mol.atoms \o Repeat("H", mol.implicit_hs), 0)

InitMol ==
    /\ smi \in SmiInputs
    /\ sel_idx = 0
    /\ embed_mols = <<>>
    /\ mol_files = <<>>
    /\ sel_pc = "loop"

IdleMol ==
    /\ smi = <<>>
    /\ sel_idx = 0
    /\ embed_mols = <<>>
    /\ mol_files = <<>>
    /\ sel_pc = "done"

\* One iteration of `for i in smi`: the whole body.  mmff_ok is whether
\* MMFFOptimizeMolecule returns (it raises ValueError when the embedding
\* left the molecule without a conformer).
EmbedLoopStep ==
    /\ sel_pc = "loop"
    /\ sel_idx < Len(smi)
    /\ \E mmff_ok \in BOOLEAN :
        LET i == smi[sel_idx + 1]
        IN  IF i = None
            THEN \* None has no GetNumHeavyAtoms: AttributeError ends the cell
                 /\ sel_pc' = "error"
                 /\ UNCHANGED <<sel_idx, embed_mols>>
            ELSE /\ sel_pc' = "loop"
                 /\ sel_idx' = sel_idx + 1
                 /\ embed_mols' =
                      IF GetNumHeavyAtoms(i) > MaxHeavyAtoms THEN embed_mols
                      ELSE IF has_not_allowed_atoms(i, AllowedElements)
                           THEN embed_mols
                      ELSE IF ~mmff_ok THEN embed_mols
                      ELSE Append(embed_mols, AddHs(i))
    /\ UNCHANGED <<smi, mol_files>>

EmbedLoopEnd ==
    /\ sel_pc = "loop"
    /\ sel_idx = Len(smi)
    /\ sel_pc' = "save"
    /\ UNCHANGED <<smi, sel_idx, embed_mols, mol_files>>

\* for i, mol in enumerate(embed_mols): MolToMolFile(mol, sugbench_{i:06d})
SaveMols ==
    /\ sel_pc = "save"
    /\ mol_files' = embed_mols
    /\ sel_pc' = "done"
    /\ UNCHANGED <<smi, sel_idx, embed_mols>>

NextMol ==
    \/ EmbedLoopStep /\ UNCHANGED <<trainVars, gridVars, cubeVars, ceilVars, aimVars, scanVars, loadVars>>
    \/ EmbedLoopEnd /\ UNCHANGED <<trainVars, gridVars, cubeVars, ceilVars, aimVars, scanVars, loadVars>>
    \/ SaveMols /\ UNCHANGED <<trainVars, gridVars, cubeVars, ceilVars, aimVars, scanVars, loadVars>>

----------------------------------------------------------------------------
(* Integer arithmetic                                                      *)

Abs(x) == IF x < 0 THEN -x ELSE x

\* ceil(a / b) for b # 0
CeilDiv(a, b) ==
    IF b > 0 THEN -((-a) \div b) ELSE -(a \div (-b))

ISqrt(n) == CHOOSE r \in 0..n : r * r = n

Product(dims) == dims[1] * dims[2] * dims[3]

----------------------------------------------------------------------------
(* Python floats (IEEE binary64) and ints, computed exactly                *)
(* A natural number of any size is a little-endian sequence of limbs below *)
(* Base with no zero limb at the top; a float is m * 2^e with m of         *)
(* Precision bits (zero: m empty).                                         *)

LimbBits == 15

Base == 2^LimbBits

Precision == 53

ZeroLimbs(n) == [i \in 1..n |-> 0]

Limb(a, i) == IF i <= Len(a) THEN a[i] ELSE 0

RECURSIVE BNorm(_)
BNorm(a) ==
    IF Len(a) > 0 /\ a[Len(a)] = 0 THEN BNorm(SubSeq(a, 1, Len(a) - 1))
    ELSE a

RECURSIVE BFromInt(_)
BFromInt(n) ==
    IF n = 0 THEN <<>> ELSE <<n % Base>> \o BFromInt(n \div Base)

RECURSIVE BAddFrom(_, _, _, _)
BAddFrom(a, b, i, carry) ==
    IF i > Len(a) /\ i > Len(b)
    THEN IF carry = 0 THEN <<>> ELSE <<carry>>
    ELSE LET t == Limb(a, i) + Limb(b, i) + carry
         IN  <<t % Base>> \o BAddFrom(a, b, i + 1, t \div Base)

BAdd(a, b) == BAddFrom(a, b, 1, 0)

\* a - b for a >= b
RECURSIVE BSubFrom(_, _, _, _)
BSubFrom(a, b, i, borrow) ==
    IF i > Len(a) THEN <<>>
    ELSE LET t == a[i] - Limb(b, i) - borrow
         IN  <<IF t < 0 THEN t + Base ELSE t>>
                \o BSubFrom(a, b, i + 1, IF t < 0 THEN 1 ELSE 0)

BSub(a, b) == BNorm(BSubFrom(a, b, 1, 0))

RECURSIVE BCmpFrom(_, _, _)
BCmpFrom(a, b, i) ==
    IF i = 0 THEN 0
    ELSE IF a[i] < b[i] THEN -1
    ELSE IF a[i] > b[i] THEN 1
    ELSE BCmpFrom(a, b, i - 1)

\* -1, 0 or 1 as a is below, equal to or above b
BCmp(a, b) ==
    IF Len(a) < Len(b) THEN -1
    ELSE IF Len(a) > Len(b) THEN 1
    ELSE BCmpFrom(a, b, Len(a))

RECURSIVE BMulSmallFrom(_, _, _, _)
BMulSmallFrom(a, k, i, carry) ==
    IF i > Len(a) THEN IF carry = 0 THEN <<>> ELSE <<carry>>
    ELSE LET t == a[i] * k + carry
         IN  <<t % Base>> \o BMulSmallFrom(a, k, i + 1, t \div Base)

\* a * k for 0 <= k < Base
BMulSmall(a, k) == IF k = 0 THEN <<>> ELSE BMulSmallFrom(a, k, 1, 0)

\* the sum over the limbs of b from the i-th of a * limb * Base^(limb's
\* place); a zero limb adds nothing
RECURSIVE BMulFrom(_, _, _)
BMulFrom(a, b, i) ==
    IF i > Len(b) THEN <<>>
    ELSE IF b[i] = 0 THEN BMulFrom(a, b, i + 1)
    ELSE IF i = Len(b) THEN ZeroLimbs(i - 1) \o BMulSmall(a, b[i])
    ELSE BAdd(ZeroLimbs(i - 1) \o BMulSmall(a, b[i]), BMulFrom(a, b, i + 1))

BMul(a, b) == BNorm(BMulFrom(a, b, 1))

\* a * 2^n
BShl(a, n) ==
    IF a = <<>> THEN <<>>
    ELSE ZeroLimbs(n \div LimbBits) \o BMulSmall(a, 2^(n % LimbBits))

\* short division, one limb of a at a time from the top; the quotient q
\* gets no digit while it is zero
RECURSIVE BDivSmallFrom(_, _, _, _, _)
BDivSmallFrom(a, k, i, q, rem) ==
    IF i = 0 THEN <<q, rem>>
    ELSE LET t == rem * Base + a[i]
         IN  IF q = <<>> /\ t < k
             THEN BDivSmallFrom(a, k, i - 1, <<>>, t)
             ELSE BDivSmallFrom(a, k, i - 1, <<t \div k>> \o q, t % k)

\* quotient and remainder of a by k, 0 < k <= Base
BDivSmall(a, k) == BDivSmallFrom(a, k, Len(a), <<>>, 0)

\* floor(a / 2^n)
BShr(a, n) ==
    IF n \div LimbBits >= Len(a) THEN <<>>
    ELSE BDivSmall(SubSeq(a, (n \div LimbBits) + 1, Len(a)),
                   2^(n % LimbBits))[1]

\* whether the n lowest bits of a are all zero
BLowZero(a, n) ==
    /\ \A i \in 1..(n \div LimbBits) : Limb(a, i) = 0
    /\ Limb(a, (n \div LimbBits) + 1) % 2^(n % LimbBits) = 0

\* the number of bits of n, 0 <= n < Base
BitLenSmall(n) == CHOOSE k \in 0..LimbBits : 2^k > n /\ (k = 0 \/ 2^(k - 1) <= n)

BBitLen(a) ==
    IF a = <<>> THEN 0
    ELSE (Len(a) - 1) * LimbBits + BitLenSmall(a[Len(a)])

\* bit i of a, the lowest being bit 1
BBit(a, i) ==
    (Limb(a, ((i - 1) \div LimbBits) + 1) \div 2^((i - 1) % LimbBits)) % 2

\* the quotient digit of r by b, for b with its top limb at least Base / 2
\* and r < b * Base: the estimate from the top limbs is at most 2 too large
QuotientDigit(r, b) ==
    LET n == Len(b)
        est == (Limb(r, n + 1) * Base + Limb(r, n)) \div b[n]
        qhat == IF est > Base - 1 THEN Base - 1 ELSE est
        fits(d) == d <= 0 \/ BCmp(BMulSmall(b, d), r) <= 0
    IN  IF fits(qhat) THEN qhat
        ELSE IF fits(qhat - 1) THEN qhat - 1
        ELSE qhat - 2

\* long division, one limb of a at a time from the top; the quotient q
\* gets no digit while it is zero
RECURSIVE BDivModFrom(_, _, _, _, _)
BDivModFrom(a, b, i, q, r) ==
    IF i = 0 THEN <<q, r>>
    ELSE LET r2 == BNorm(<<a[i]>> \o r)
             d == QuotientDigit(r2, b)
         IN  IF q = <<>> /\ d = 0
             THEN BDivModFrom(a, b, i - 1, <<>>, r2)
             ELSE BDivModFrom(a, b, i - 1, <<d>> \o q,
                              BSub(r2, BMulSmall(b, d)))

\* quotient and remainder of a by b, b > 0: both are scaled to bring the
\* top limb of b to at least Base / 2
BDivMod(a, b) ==
    LET k == LimbBits - BitLenSmall(b[Len(b)])
        qr == BDivModFrom(BShl(a, k), BShl(b, k), Len(BShl(a, k)), <<>>, <<>>)
    IN  <<qr[1], BShr(qr[2], k)>>

Float(m, e) == [m |-> m, e |-> e]

FloatZero == Float(<<>>, 0)

\* N * 2^e rounded to Precision bits, to nearest and ties to even; sticky
\* tells that a nonzero part below N was already dropped
RoundNat(N, e, sticky) ==
    LET L == BBitLen(N)
    IN  IF L = 0 THEN FloatZero
        ELSE IF L <= Precision
        THEN Float(BShl(N, Precision - L), e - (Precision - L))
        ELSE LET s == L - Precision
                 q == BShr(N, s)
                 \* the dropped part is at least half a unit (bit s is set)
                 \* and above it, or exactly half with q odd
                 up == /\ BBit(N, s) = 1
                       /\ \/ ~BLowZero(N, s - 1)
                          \/ sticky
                          \/ BBit(N, s + 1) = 1
                 q2 == IF up THEN BAdd(q, <<1>>) ELSE q
             IN  IF BBitLen(q2) > Precision
                 THEN Float(BShr(q2, 1), e + s + 1)
                 ELSE Float(q2, e + s)

\* the float a decimal literal of centis hundredths denotes (0.15 is 15)
float_literal(centis) ==
    LET dm == BDivSmall(BShl(BFromInt(centis), 62), 100)
    IN  IF dm[2] = 0 THEN RoundNat(dm[1], -62, FALSE)
        ELSE RoundNat(dm[1], -62, TRUE)

\* a / b on floats, b nonzero
fdiv(a, b) ==
    IF a.m = <<>> THEN FloatZero
    ELSE LET dm == BDivMod(BShl(a.m, Precision + 2), b.m)
         IN  IF dm[2] = <<>>
             THEN RoundNat(dm[1], a.e - b.e - (Precision + 2), FALSE)
             ELSE RoundNat(dm[1], a.e - b.e - (Precision + 2), TRUE)

\* a * b on floats
fmul(a, b) ==
    IF a.m = <<>> \/ b.m = <<>> THEN FloatZero
    ELSE RoundNat(BMul(a.m, b.m), a.e + b.e, FALSE)

\* math.ceil of a float a >= 0: a Python int
math_ceil(a) ==
    IF a.e >= 0 THEN BShl(a.m, a.e)
    ELSE IF BLowZero(a.m, -a.e) THEN BShr(a.m, -a.e)
    ELSE BAdd(BShr(a.m, -a.e), <<1>>)

\* the float an int is converted to in int * float
float_of_int(n) == RoundNat(n, 0, FALSE)

\* math.ceil(x / step_size) * step_size, returned with no epsilon taken off
ceil_float(x, step_size) ==
    LET q == fdiv(x, step_size)
    IN  IF q.m = <<>> THEN FloatZero
        ELSE fmul(float_of_int(math_ceil(q)), step_size)

\* -1, 0 or 1 as the value of a is below, equal to or above that of b
DyadicCmp(a, b) ==
    LET e == IF a.e < b.e THEN a.e ELSE b.e
    IN  BCmp(BShl(a.m, a.e - e), BShl(b.m, b.e - e))

\* the sum of two values m * 2^e as real numbers, not rounded
DyadicSum(a, b) ==
    LET e == IF a.e < b.e THEN a.e ELSE b.e
    IN  Float(BAdd(BShl(a.m, a.e - e), BShl(b.m, b.e - e)), e)

\* a + b on floats
fadd(a, b) ==
    IF a.m = <<>> THEN b
    ELSE IF b.m = <<>> THEN a
    ELSE LET s == DyadicSum(a, b) IN RoundNat(s.m, s.e, FALSE)

\* a - b on floats, for a >= b
fsub(a, b) ==
    IF b.m = <<>> THEN a
    ELSE LET e == IF a.e < b.e THEN a.e ELSE b.e
         IN  RoundNat(BSub(BShl(a.m, a.e - e), BShl(b.m, b.e - e)), e, FALSE)

(* A float with its sign: neg tells a negative value, m * 2^e is the       *)
(* magnitude; zero is not negative.                                        *)
Signed(neg, f) == [neg |-> neg /\ f.m # <<>>, m |-> f.m, e |-> f.e]

Mag(a) == Float(a.m, a.e)

\* a + b on signed floats
float_add(a, b) ==
    IF a.neg = b.neg THEN Signed(a.neg, fadd(Mag(a), Mag(b)))
    ELSE LET c == DyadicCmp(Mag(a), Mag(b))
         IN  IF c = 0 THEN Signed(FALSE, FloatZero)
             ELSE IF c > 0 THEN Signed(a.neg, fsub(Mag(a), Mag(b)))
             ELSE Signed(b.neg, fsub(Mag(b), Mag(a)))

\* a - b on signed floats
float_sub(a, b) == float_add(a, Signed(~b.neg, Mag(b)))

\* a * b on signed floats
float_mul(a, b) == Signed(a.neg # b.neg, fmul(Mag(a), Mag(b)))

\* a / b on signed floats, b nonzero
float_div(a, b) == Signed(a.neg # b.neg, fdiv(Mag(a), Mag(b)))

\* the float a decimal of centis hundredths denotes, centis of either sign
float_of_centis(centis) == Signed(centis < 0, float_literal(Abs(centis)))

\* a Python int as a float
float_of_py_int(k) == Signed(k < 0, float_of_int(BFromInt(Abs(k))))

----------------------------------------------------------------------------
(* LazyMeshGrid                                                            *)
(* Cell entries, origins and grid steps are whole numbers, which float64   *)
(* holds exactly, and the three row vectors of a cell have whole norms.    *)
(* The scaled grid vectors and the positions are float64 values.           *)

MaxLen == 3

MaxStep == 2

MaxN == 2

\* a degenerate axis, and the two longest lengths
CellLengths == {0} \cup ((MaxLen - 1)..MaxLen)

DiagCell(a, b, c) == <<<<a, 0, 0>>, <<0, b, 0>>, <<0, 0, c>>>>

\* cells with a vector off the axes.  In each column at most one entry is
\* not a power of two, so that at most one product of a row of np.dot is
\* rounded and the sum does not depend on how the BLAS in use orders or
\* fuses its multiply-adds.
SkewCells == { <<<<3, 4, 0>>, <<0, 2, 0>>, <<0, 0, 1>>>>,
               <<<<0, 0, 2>>, <<0, 2, 0>>, <<3, 4, 0>>>> }

Cells == {DiagCell(a, b, c) : a \in CellLengths, b \in CellLengths,
                              c \in CellLengths} \cup SkewCells

GridSteps == -1..MaxStep

NoOrigin == <<>>

Origins == {NoOrigin, <<1, -2, 3>>}

\* ase Cell.lengths(): the norms of the three cell vectors
lengths(cell) ==
    [k \in 1..3 |->
        ISqrt(cell[k][1] * cell[k][1] + cell[k][2] * cell[k][2]
              + cell[k][3] * cell[k][3])]

\* np.arange(start, stop, step): a zero step is an error; otherwise
\* max(0, ceil((stop - start) / step)) values start + i * step
arange(start, stop, step) ==
    IF step = 0 THEN [error |-> TRUE, values |-> <<>>]
    ELSE LET c == CeilDiv(stop - start, step)
             n == IF c > 0 THEN c ELSE 0
         IN  [error |-> FALSE,
              values |-> [i \in 1..n |-> start + (i - 1) * step]]

NoGrid == [cell |-> <<>>, scaled_grid_vectors |-> <<>>, shape |-> <<>>,
           origin |-> <<>>]

\* LazyMeshGrid.__init__: [error, self]
LazyMeshGrid(cell, grid_step, origin) ==
    LET ls == lengths(cell)
        ar == [k \in 1..3 |-> arange(0, ls[k], grid_step)]
    IN  IF \E k \in 1..3 : ar[k].error
        THEN [error |-> TRUE, self |-> NoGrid]
        ELSE LET \* np.arange(0, l, grid_step) / l: each quotient rounded
                 sgv == [k \in 1..3 |->
                            [i \in 1..Len(ar[k].values) |->
                                float_div(float_of_py_int(ar[k].values[i]),
                                          float_of_py_int(ls[k]))]]
                 \* np.zeros(3) where no origin is given
                 o == IF origin = NoOrigin THEN <<0, 0, 0>> ELSE origin
             IN  [error |-> FALSE,
                  self |-> [\* the Cell: a 3 x 3 array of float64
                            cell |-> [k \in 1..3 |-> [c \in 1..3 |->
                                        float_of_py_int(cell[k][c])]],
                            scaled_grid_vectors |-> sgv,
                            shape |-> <<Len(sgv[1]), Len(sgv[2]),
                                        Len(sgv[3]), 3>>,
                            \* np.expand_dims(origin, 0): a 1 x 3 array
                            origin |-> <<[c \in 1..3 |->
                                            float_of_py_int(o[c])]>>]]

(* An array-like argument is [kind, dims, flat]: kind "rect" is a nested   *)
(* list (or array) of the rectangular shape dims with its elements in      *)
(* row-major order; kind "ragged" is a list of rows whose lengths, dims,   *)
(* differ.                                                                 *)
ArrayLike(kind, dims, flat) == [kind |-> kind, dims |-> dims, flat |-> flat]

RECURSIVE SeqProduct(_)
SeqProduct(dims) ==
    IF dims = <<>> THEN 1 ELSE Head(dims) * SeqProduct(Tail(dims))

\* np.array(indices): the shape and dtype numpy gives.  A list without
\* elements becomes a float64 array.  A ragged list is refused with a
\* ValueError by numpy >= 1.24 and becomes a one-dimensional object array
\* before that: object_array says which numpy runs.
np_array(x, object_array) ==
    IF x.kind = "ragged"
    THEN IF object_array
         THEN [error |-> FALSE, shape |-> <<Len(x.dims)>>,
               dtype |-> "object", flat |-> x.flat]
         ELSE [error |-> TRUE, shape |-> <<>>, dtype |-> "object",
               flat |-> <<>>]
    ELSE [error |-> FALSE, shape |-> x.dims,
          dtype |-> IF SeqProduct(x.dims) = 0 THEN "float" ELSE "int",
          flat |-> x.flat]

\* row k (1..3) of a 3 x N array
Row(a, k) ==
    LET n == a.shape[2]
    IN  SubSeq(a.flat, (k - 1) * n + 1, k * n)

\* the check written with len(indices_shape) >= 2
is_3xN_or_deeper(shape) == Len(shape) >= 2 /\ shape[1] = 3

\* len(indices_shape) == 2 and indices_shape[0] == 3
is_3xN(shape) == Len(shape) = 2 /\ shape[1] = 3

\* vec[idx] with an index array: an IndexError unless the indices are
\* integers within -len .. len-1; a negative index counts from the end
take(vec, idx, dtype) ==
    IF dtype # "int" \/ \E j \in 1..Len(idx) :
                            idx[j] < -Len(vec) \/ idx[j] >= Len(vec)
    THEN [error |-> TRUE, values |-> <<>>]
    ELSE [error |-> FALSE,
          values |-> [j \in 1..Len(idx) |->
                         vec[(IF idx[j] < 0 THEN idx[j] + Len(vec)
                              ELSE idx[j]) + 1]]]

\* the three fancy-indexing reads with the rows of axes 1 and 2 exchanged
grid_vectors_at_swapped(self, a) ==
    <<take(self.scaled_grid_vectors[1], Row(a, 1), a.dtype),
      take(self.scaled_grid_vectors[2], Row(a, 3), a.dtype),
      take(self.scaled_grid_vectors[3], Row(a, 2), a.dtype)>>

\* gridA, gridB, gridC = self.scaled_grid_vectors[k][indices[k]]
grid_vectors_at(self, a) ==
    <<take(self.scaled_grid_vectors[1], Row(a, 1), a.dtype),
      take(self.scaled_grid_vectors[2], Row(a, 2), a.dtype),
      take(self.scaled_grid_vectors[3], Row(a, 3), a.dtype)>>

\* np.stack([gridA, gridB, gridC], 1), np.dot(grid_pos, self.cell) and
\* grid_pos += self.origin (the 1 x 3 origin broadcast over the rows), in
\* float64: every product and every sum is rounded
grid_pos_of(self, g) ==
    [j \in 1..Len(g[1]) |->
        [c \in 1..3 |->
            LET term(k) == float_mul(g[k][j], self.cell[k][c])
            IN  float_add(float_add(float_add(term(1), term(2)), term(3)),
                          self.origin[1][c])]]

\* the += of line 88 applied to self.origin instead of the fresh grid_pos
self_after_getitem_aliased(self, out) ==
    IF out.raised = "" /\ Len(out.value) = 1
    THEN [self EXCEPT !.origin =
            <<[c \in 1..3 |->
                float_add(self.origin[1][c], self.cell[1][c])]>>]
    ELSE self

\* the assignments of the body before its last statement, as <<line, name>>:
\* each right-hand side returns a new array (np.array copies its argument,
\* a read with an index array copies, np.stack and np.dot allocate)
getitem_assignments ==
    << <<78, "indices">>, <<82, "gridA">>, <<83, "gridB">>, <<84, "gridC">>,
       <<86, "grid_pos">>, <<87, "grid_pos">> >>

\* the array a local name refers to when the statement at a line runs: the
\* one made by the last assignment to the name above the line, or, for the
\* parameter, the caller's argument
object_of(name, line) ==
    LET above == {i \in 1..Len(getitem_assignments) :
                     /\ getitem_assignments[i][2] = name
                     /\ getitem_assignments[i][1] < line}
    IN  IF above # {}
        THEN <<"made at", getitem_assignments[
                             CHOOSE i \in above : \A h \in above : h <= i][1]>>
        ELSE IF name = "indices" THEN <<"argument", 0>>
        ELSE <<"unbound", 0>>

\* the object after __getitem__.  No statement assigns to a field of self;
\* the one statement that writes into an existing array is
\* grid_pos += self.origin, which runs when nothing was raised above it and
\* writes into the array grid_pos refers to there
self_after_getitem(self, out) ==
    LET written == IF out.raised = "" THEN object_of("grid_pos", 88)
                   ELSE <<"none", 0>>
    IN  IF written = <<"field", "origin">>
        THEN [self EXCEPT !.origin =
                <<[c \in 1..3 |->
                    float_add(self.origin[1][c], self.origin[1][c])]>>]
        ELSE IF written = <<"field", "cell">>
        THEN [self EXCEPT !.cell =
                [k \in 1..3 |-> [c \in 1..3 |->
                    float_add(self.cell[k][c], self.origin[1][c])]]]
        ELSE self

Outcome(raised, value, reads) ==
    [raised |-> raised, value |-> value, reads |-> reads]

\* LazyMeshGrid.__getitem__: its outcome.  reads counts the reads of
\* self.scaled_grid_vectors made before it returned or raised.
getitem(self, indices, object_array) ==
    LET a == np_array(indices, object_array)
    IN  IF a.error THEN Outcome("ValueError", <<>>, 0)
        ELSE IF ~is_3xN(a.shape)
        THEN Outcome("NotImplementedError", <<>>, 0)
        ELSE LET g == grid_vectors_at(self, a)
             IN  IF g[1].error THEN Outcome("IndexError", <<>>, 1)
                 ELSE IF g[2].error THEN Outcome("IndexError", <<>>, 2)
                 ELSE IF g[3].error THEN Outcome("IndexError", <<>>, 3)
                 ELSE Outcome("",
                        grid_pos_of(self, <<g[1].values, g[2].values,
                                            g[3].values>>), 3)

\* np.unravel_index(np.arange(first, first + n), dims) as a 3 x n array
unravel_index(first, n, dims) ==
    LET col(f) == <<f \div (dims[2] * dims[3]),
                    (f \div dims[3]) % dims[2],
                    f % dims[3]>>
    IN  ArrayLike("rect", <<3, n>>,
           [m \in 1..(3 * n) |->
               col(first + ((m - 1) % n))[((m - 1) \div n) + 1]])

\* one index per axis: the corners of the grid and, on one axis at a time,
\* the index before the first point and the index past the last
IdxVals(shape) ==
    { <<a, b, c>> : a \in {0, shape[1] - 1}, b \in {0, shape[2] - 1},
                    c \in {0, shape[3] - 1} }
        \cup UNION { { [<<0, 0, 0>> EXCEPT ![k] = v] : v \in {-1, shape[k]} } :
                       k \in 1..3 }

\* arguments that are no 3 x N array
MalformedDims == { <<>>, <<3>>, <<1>>, <<0>>, <<2, 1>>, <<4, 2>>, <<1, 3>>,
                   <<0, 3>>, <<3, 1, 1>>, <<1, 3, 1>>, <<3, 0, 2>>,
                   <<2, 3, 3>> }

RaggedDims == { <<1, 2, 1>>, <<2, 1>>, <<0, 1, 0>> }

Zeros(n) == [k \in 1..n |-> 0]

RECURSIVE SeqSum(_)
SeqSum(s) == IF s = <<>> THEN 0 ELSE Head(s) + SeqSum(Tail(s))

\* arguments of at most one index per axis, and arguments that are refused
LaterInputs(shape) ==
    { ArrayLike("rect", <<3, 1>>, abc) : abc \in IdxVals(shape) }
        \cup { ArrayLike("rect", <<3, 0>>, <<>>) }
        \cup { ArrayLike("rect", d, Zeros(SeqProduct(d))) :
                 d \in MalformedDims }
        \cup { ArrayLike("ragged", d, Zeros(SeqSum(d))) : d \in RaggedDims }

\* the arguments __getitem__ is called with, for a grid of the given shape:
\* those, and the batches of 2..MaxN successive grid points that the cube
\* loop passes, which between them hold every point of the grid
IndexInputs(shape) ==
    LET n_points == Product(shape)
    IN  LaterInputs(shape)
        \cup { unravel_index(ft[1], ft[2], shape) :
                 ft \in { p \in (0..(n_points - 1)) \X (2..MaxN) :
                              p[1] % p[2] = 0 /\ p[1] + p[2] <= n_points } }

NoArg == ArrayLike("none", <<>>, <<>>)

NoOutcome == Outcome("none", <<>>, 0)

InitGrid ==
    /\ g_status = "none"
    /\ g_args = [cell |-> <<>>, grid_step |-> 0, origin |-> NoOrigin]
    /\ g_self = NoGrid
    /\ g_made = NoGrid
    /\ last_idx = NoArg
    /\ last_out = NoOutcome
    /\ kept_idx = NoArg
    /\ kept_out = NoOutcome
    /\ other_between = FALSE

\* grid_pos = LazyMeshGrid(cell, grid_step[, origin])
Construct ==
    /\ g_status = "none"
    /\ \E cell \in Cells, grid_step \in GridSteps, origin \in Origins :
         LET r == LazyMeshGrid(cell, grid_step, origin)
         IN  /\ g_args' = [cell |-> cell, grid_step |-> grid_step,
                           origin |-> origin]
             /\ g_status' = IF r.error THEN "error" ELSE "built"
             /\ g_self' = r.self
             /\ g_made' = r.self
    /\ UNCHANGED <<last_idx, last_out, kept_idx, kept_out, other_between>>

\* grid_pos[indices], any number of times: the first call with any index
\* array; the calls after it with an array of LaterInputs or with the array
\* of the first call that returned positions, and with that array alone once
\* a different one was passed after that call
GetItem ==
    /\ g_status = "built"
    /\ \E indices \in IF other_between THEN {kept_idx}
                       ELSE IF last_idx = NoArg THEN IndexInputs(g_self.shape)
                       ELSE LaterInputs(g_self.shape)
                               \cup ({kept_idx} \ {NoArg}) :
       \E object_array \in IF indices.kind = "ragged" THEN BOOLEAN
                           ELSE {FALSE} :
       \E out \in {getitem(g_self, indices, object_array)} :
             /\ last_idx' = indices
             /\ last_out' = out
             /\ g_self' = self_after_getitem(g_self, out)
             /\ IF kept_idx = NoArg
                THEN /\ kept_idx' = IF out.raised = "" THEN indices ELSE NoArg
                     /\ kept_out' = IF out.raised = "" THEN out ELSE NoOutcome
                     /\ other_between' = FALSE
                ELSE /\ UNCHANGED <<kept_idx, kept_out>>
                     /\ other_between' = (other_between \/ indices # kept_idx)
    /\ UNCHANGED <<g_status, g_args, g_made>>

NextGrid ==
    \/ Construct /\ UNCHANGED <<molVars, trainVars, cubeVars, ceilVars, aimVars, scanVars, loadVars>>
    \/ GetItem /\ UNCHANGED <<molVars, trainVars, cubeVars, ceilVars, aimVars, scanVars, loadVars>>

----------------------------------------------------------------------------
(* The cube-writing loops                                                  *)
(* A value the model predicts for a probe is identified with the position  *)
(* of the probe: the cube file's values are the positions they were        *)
(* computed at.                                                            *)

MaxMols == 2

ProbeCount == 1000

\* an entry of sugbench / dimer: the name and what load_molecule returned
CubeMol(name, cell, grid_step) ==
    [name |-> name, cell |-> cell, grid_step |-> grid_step,
     grid_position |-> LazyMeshGrid(cell, grid_step, NoOrigin).self,
     origin |-> <<0, 0, 0>>]

CubeMolecules ==
    { CubeMol("tiny", DiagCell(4, 6, 8), 2),        \* 2 x 3 x 4 = 24
      CubeMol("over", DiagCell(7, 11, 13), 1),      \* 1001: a batch of one
      CubeMol("exact", DiagCell(10, 10, 10), 1),    \* 1000: one full batch
      CubeMol("flat", DiagCell(3, 0, 3), 1) }       \* no grid point

CubeLists ==
    { l \in SeqsUpTo(CubeMolecules, MaxMols) :
        \A a \in 1..Len(l) : \A b \in 1..Len(l) : a # b => l[a] # l[b] }

Names(l) == {l[k].name : k \in 1..Len(l)}

GridShape(m) == SubSeq(m.grid_position.shape, 1, 3)

\* DensityGridIterator.num_slices: ceil(num_positions / probe_count)
num_slices(m) == CeilDiv(Product(GridShape(m)), ProbeCount)

\* DensityGridIterator.get_slice: the probe positions of one slice, which
\* are grid_position[np.unravel_index(flat_index, shape)]
slice_positions(m, slice_index) ==
    LET n_points == Product(GridShape(m))
        first == slice_index * ProbeCount
        last == IF first + ProbeCount < n_points THEN first + ProbeCount
                ELSE n_points
    IN  getitem(m.grid_position,
                unravel_index(first, last - first, GridShape(m)),
                FALSE).value

\* a loop body without the break: the loop goes on to the next molecule
after_body_pc_no_break(loop) == "head"

\* where the body ends: Ex1 breaks out of the loop, the dimer loop goes on
after_body_pc(loop) == IF loop = "ex1" THEN "done" ELSE "head"

\* a probe loop left after its first batch
probe_loop_continues_once(slice, n_slices) == slice < n_slices /\ slice < 1

\* for probe_graph_dict in density_iter: every slice is visited
probe_loop_continues(slice, n_slices) == slice < n_slices

\* CubeWriter.write: the values are appended to those written before
write(values, data) == values \o data

\* a failure of CubeWriter(...) caught and passed over
writer_failure_pc_swallowed == "atom_model"

\* CubeWriter(...) raising: nothing catches it, the cell stops
writer_failure_pc == "error"

InitCube ==
    /\ cube_loop \in {"ex1", "dimer"}
    /\ cmols \in CubeLists
    /\ unwritable \in {{}} \cup {{n} : n \in Names(cmols)}
    /\ c_i = 0
    /\ c_pc = "head"
    /\ c_slice = 0
    /\ cubewriter = ""
    /\ cube_files = <<>>
    /\ xyz_files = {}
    /\ atom_evals = [k \in 1..Len(cmols) |-> 0]
    /\ probe_evals = [k \in 1..Len(cmols) |-> 0]

IdleCube ==
    /\ cube_loop = "ex1"
    /\ cmols = <<>>
    /\ unwritable = {}
    /\ c_i = 0
    /\ c_pc = "done"
    /\ c_slice = 0
    /\ cubewriter = ""
    /\ cube_files = <<>>
    /\ xyz_files = {}
    /\ atom_evals = <<>>
    /\ probe_evals = <<>>

\* for i, density_dict in sugbench: the next element, or the end
NextMolecule ==
    /\ c_pc = "head"
    /\ IF c_i < Len(cmols)
       THEN c_i' = c_i + 1 /\ c_pc' = "create"
       ELSE c_i' = c_i /\ c_pc' = "done"
    /\ UNCHANGED <<cube_loop, cmols, unwritable, c_slice, cubewriter,
                   cube_files, xyz_files, atom_evals, probe_evals>>

\* cubewriter = utils.CubeWriter(path, atoms, shape[0:3], origin, comment):
\* opens the file and writes the header. The writer is described as failing
\* on a non-positive grid dimension and the loop does not check the shape
\* itself, so for such a shape both outcomes are kept.
CreateWriter ==
    /\ c_pc = "create"
    /\ \E shape_rejected \in
            IF \E k \in 1..3 : GridShape(cmols[c_i])[k] <= 0
            THEN BOOLEAN ELSE {FALSE} :
          LET m == cmols[c_i]
          IN  IF m.name \in unwritable \/ shape_rejected
              THEN /\ c_pc' = writer_failure_pc
                   /\ UNCHANGED <<cubewriter, cube_files>>
              ELSE /\ c_pc' = "atom_model"
                   /\ cubewriter' = m.name
                   /\ cube_files' =
                        [n \in DOMAIN cube_files \cup {m.name} |->
                           IF n = m.name
                           THEN [shape |-> GridShape(m), origin |-> m.origin,
                                 values |-> <<>>]
                           ELSE cube_files[n]]
    /\ UNCHANGED <<cube_loop, cmols, unwritable, c_i, c_slice, xyz_files,
                   atom_evals, probe_evals>>

\* graph_dict = collate_fn(...), atom_representation = model.atom_model(...)
\* and density_iter = dataset.DensityGridIterator(density_dict, ...)
AtomModel ==
    /\ c_pc = "atom_model"
    /\ atom_evals' = [atom_evals EXCEPT ![c_i] = @ + 1]
    /\ c_slice' = 0
    /\ c_pc' = "probe"
    /\ UNCHANGED <<cube_loop, cmols, unwritable, c_i, cubewriter, cube_files,
                   xyz_files, probe_evals>>

\* one iteration of `for probe_graph_dict in density_iter`:
\* cubewriter.write(bohr2angp3 * model.probe_model(...).flatten())
ProbeBatch ==
    /\ c_pc = "probe"
    /\ probe_loop_continues(c_slice, num_slices(cmols[c_i]))
    /\ IF cubewriter = ""
       THEN \* the name cubewriter is not bound: NameError
            /\ c_pc' = "error"
            /\ UNCHANGED <<c_slice, cube_files, probe_evals>>
       ELSE /\ probe_evals' = [probe_evals EXCEPT ![c_i] = @ + 1]
            /\ cube_files' =
                 [cube_files EXCEPT ![cubewriter].values =
                     write(@, slice_positions(cmols[c_i], c_slice))]
            /\ c_slice' = c_slice + 1
            /\ c_pc' = "probe"
    /\ UNCHANGED <<cube_loop, cmols, unwritable, c_i, cubewriter, xyz_files,
                   atom_evals>>

\* the end of the probe loop, and the rest of the body: Ex1 writes the xyz
\* file and breaks, the dimer loop goes on to the next molecule
FinishMolecule ==
    /\ c_pc = "probe"
    /\ ~probe_loop_continues(c_slice, num_slices(cmols[c_i]))
    /\ xyz_files' = IF cube_loop = "ex1"
                    THEN xyz_files \cup {cmols[c_i].name}
                    ELSE xyz_files
    /\ c_pc' = after_body_pc(cube_loop)
    /\ UNCHANGED <<cube_loop, cmols, unwritable, c_i, c_slice, cubewriter,
                   cube_files, atom_evals, probe_evals>>

NextCube ==
    \/ NextMolecule /\ UNCHANGED <<molVars, trainVars, gridVars, ceilVars, aimVars, scanVars, loadVars>>
    \/ CreateWriter /\ UNCHANGED <<molVars, trainVars, gridVars, ceilVars, aimVars, scanVars, loadVars>>
    \/ AtomModel /\ UNCHANGED <<molVars, trainVars, gridVars, ceilVars, aimVars, scanVars, loadVars>>
    \/ ProbeBatch /\ UNCHANGED <<molVars, trainVars, gridVars, ceilVars, aimVars, scanVars, loadVars>>
    \/ FinishMolecule /\ UNCHANGED <<molVars, trainVars, gridVars, ceilVars, aimVars, scanVars, loadVars>>

----------------------------------------------------------------------------
(* ceil_float called on lengths and steps given in hundredths             *)

MaxCentis == 100

\* step sizes in hundredths: grid_step is 0.25 (Ex1) and 0.05 (dimer)
StepCentis == {5, 10, 25, 30}

NoFloat == Float(<<>>, -1)

InitCeil ==
    /\ cf_x \in {float_literal(k) : k \in 0..MaxCentis}
    /\ cf_step_size \in {float_literal(k) : k \in StepCentis}
    /\ cf_pc = "start"
    /\ cf_r = NoFloat
    /\ cf_rr = NoFloat

IdleCeil ==
    /\ cf_x = NoFloat
    /\ cf_step_size = NoFloat
    /\ cf_pc = "idle"
    /\ cf_r = NoFloat
    /\ cf_rr = NoFloat

\* r = ceil_float(x, step_size)
CallCeilFloat ==
    /\ cf_pc = "start"
    /\ cf_r' = ceil_float(cf_x, cf_step_size)
    /\ cf_pc' = "once"
    /\ UNCHANGED <<cf_x, cf_step_size, cf_rr>>

\* ceil_float(r, step_size)
CallCeilFloatAgain ==
    /\ cf_pc = "once"
    /\ cf_rr' = ceil_float(cf_r, cf_step_size)
    /\ cf_pc' = "twice"
    /\ UNCHANGED <<cf_x, cf_step_size, cf_r>>

NextCeil ==
    \/ CallCeilFloat /\ UNCHANGED <<molVars, trainVars, gridVars, cubeVars, aimVars, scanVars, loadVars>>
    \/ CallCeilFloatAgain
         /\ UNCHANGED <<molVars, trainVars, gridVars, cubeVars, aimVars, scanVars, loadVars>>

----------------------------------------------------------------------------
(* Training loop                                                           *)
(* Learning rates are integers in units of 1e-8 / 2^10, so that 1e-3 and   *)
(* the halvings the loop can reach are exact.  A metric is an integer, NaN *)
(* a value that compares false with everything, Inf the initial best.      *)

InitialEpoch == 0

FinalEpoch == 100

SaveEvery == 10

LearningRate == 102400000

SchedEps == 1024

SchedPatience == 10

SchedThresholdDen == 10000

NoLr == -1

NaN == -2

Inf == -3

Metrics == {NaN, 5000, 9999, 10000}

\* ReduceLROnPlateau.is_better, mode='min', threshold_mode='rel',
\* threshold=1e-4: a < best * (1 - threshold)
is_better(a, best) ==
    IF a = NaN \/ best = NaN THEN FALSE
    ELSE IF best = Inf THEN TRUE
    ELSE a * SchedThresholdDen < best * (SchedThresholdDen - 1)

\* ReduceLROnPlateau._reduce_lr with factor=0.5, min_lr=0, eps=1e-8
reduce_lr(old_lr) ==
    LET half == old_lr \div 2
        new_lr == IF half > 0 THEN half ELSE 0
    IN  IF old_lr - new_lr > SchedEps THEN new_lr ELSE old_lr

\* ReduceLROnPlateau.step(metrics) with patience=10, cooldown=0: the new
\* scheduler fields and the new learning rate of the optimizer
schd_step(s, lr, metrics) ==
    LET better == is_better(metrics, s.best)
        best1 == IF better THEN metrics ELSE s.best
        bad1 == IF better THEN 0 ELSE s.num_bad_epochs + 1
    IN  IF bad1 > SchedPatience
        THEN [schd |-> [best |-> best1, num_bad_epochs |-> 0],
              lr |-> reduce_lr(lr)]
        ELSE [schd |-> [best |-> best1, num_bad_epochs |-> bad1],
              lr |-> lr]

\* a training pass that builds the optimizer again: the learning rate goes
\* back to learning_rate
train_pass_lr_reset(lr) == LearningRate

\* The training pass: zero_grad / backward / opt.step per batch.  Adam's
\* step updates the weights; it leaves param_groups[0]['lr'] as it is.
train_pass_lr(lr) == lr

InitTrain ==
    /\ epoch = InitialEpoch
    /\ train_pc = "test"
    /\ opt_lr = LearningRate
    /\ schd = [best |-> Inf, num_bad_epochs |-> 0]
    /\ reported = NoLr
    /\ prev_reported = NoLr
    /\ checkpoints = {}

IdleTrain ==
    /\ epoch = InitialEpoch
    /\ train_pc = "done"
    /\ opt_lr = LearningRate
    /\ schd = [best |-> Inf, num_bad_epochs |-> 0]
    /\ reported = NoLr
    /\ prev_reported = NoLr
    /\ checkpoints = {}

\* The first half of an epoch: the test pass gives test_labs, then
\* schd.step(test_labs), lr = opt.param_groups[0]['lr'] and the print.
TestAndSchedule ==
    /\ train_pc = "test"
    /\ epoch <= FinalEpoch
    /\ \E test_labs \in Metrics :
         LET r == schd_step(schd, opt_lr, test_labs)
         IN  /\ schd' = r.schd
             /\ opt_lr' = r.lr
             /\ prev_reported' = reported
             /\ reported' = r.lr
    /\ train_pc' = "train"
    /\ UNCHANGED <<epoch, checkpoints>>

\* The second half: the training pass and, every 10th epoch, torch.save.
TrainPass ==
    /\ train_pc = "train"
    /\ opt_lr' = train_pass_lr(opt_lr)
    /\ checkpoints' = IF epoch % SaveEvery = 0
                      THEN checkpoints \cup {epoch} ELSE checkpoints
    /\ epoch' = epoch + 1
    /\ train_pc' = IF epoch + 1 > FinalEpoch THEN "done" ELSE "test"
    /\ UNCHANGED <<schd, reported, prev_reported>>

NextTrain ==
    \/ TestAndSchedule /\ UNCHANGED <<molVars, gridVars, cubeVars, ceilVars, aimVars, scanVars, loadVars>>
    \/ TrainPass /\ UNCHANGED <<molVars, gridVars, cubeVars, ceilVars, aimVars, scanVars, loadVars>>

----------------------------------------------------------------------------
(* AIM analysis: the atom identifier table and the charge join             *)
(* A file name is a number, ordered as the names are as strings; an id,    *)
(* the element symbol followed by the index in decimal, is the pair of     *)
(* the two; the charge of atom k in file f is a value that tells f and k.  *)

MaxChargeFiles == 3

NRows == 20

ChargeNames == 1..MaxChargeFiles

XyzAtomCounts == {3, NRows - 1, NRows, NRows + 1}

ChargeAtomCounts == {NRows - 1, NRows, NRows + 1}

ElementOf(k) == IF k % 3 = 0 THEN "N" ELSE IF k % 3 = 1 THEN "C" ELSE "H"

XyzFiles == { [k \in 1..n |-> ElementOf(k)] : n \in XyzAtomCounts }

\* the CHARGE column of the atom rows of a file bader wrote
ChargeFileContent(name, natoms) == [k \in 1..natoms |-> name * 100 + k]

ChargeFileSets ==
    UNION { { [f \in S |-> ChargeFileContent(f, count[f])] :
                count \in [S -> ChargeAtomCounts] } :
            S \in SUBSET ChargeNames }

NoTable == <<>>

\* sorted(glob.glob('./dimers/*.charge'))
sorted(S) ==
    CHOOSE q \in [1..Cardinality(S) -> S] :
        \A a \in 1..Cardinality(S) : \A b \in 1..Cardinality(S) :
            a < b => q[a] < q[b]

\* an index left as pandas numbers the rows, from 0
mol_index_from_zero(row) == row

\* mol.index = mol.index + 1, for the row at 0-based position row
mol_index(row) == row + 1

\* pd.read_csv of the xyz file without its two header lines, and the id
\* column: element + str(index)
read_mol(elements) ==
    [k \in 1..Len(elements) |->
        [index |-> mol_index(k - 1), element |-> elements[k],
         id |-> <<elements[k], mol_index(k - 1)>>]]

\* pd.read_csv(name, nrows=20, skiprows=[0, 1], ..., names of 6 columns):
\* the atom rows have 7 fields and the first, the atom number, becomes the
\* index. With fewer than nrows atoms the lines after the atom rows are
\* read too, and the index may end up as text (text_index).
read_charge(content, text_index) ==
    [text_index |-> text_index,
     rows |-> [k \in 1..(IF Len(content) < NRows THEN Len(content)
                         ELSE NRows) |->
                  [number |-> k, charge |-> content[k]]]]

\* a = mol.join(tmp[['charge']]); a['scale'] = i
join_charge(table, tmp, i) ==
    [k \in 1..Len(table) |->
        [index |-> table[k].index, element |-> table[k].element,
         id |-> table[k].id,
         charge |-> IF ~tmp.text_index
                       /\ \E r \in 1..Len(tmp.rows) :
                             tmp.rows[r].number = table[k].index
                    THEN tmp.rows[CHOOSE r \in 1..Len(tmp.rows) :
                             tmp.rows[r].number = table[k].index].charge
                    ELSE NaN,
         scale |-> i]]

RECURSIVE concat(_)
concat(tables) ==
    IF tables = <<>> THEN <<>>
    ELSE tables[1].rows \o concat(Tail(tables))

InitAim ==
    /\ aim_xyz \in XyzFiles
    /\ aim_files \in ChargeFileSets
    /\ aim_pc = "read_mol"
    /\ aim_mol = NoTable
    /\ aim_i = 0
    /\ aim_list = <<>>
    /\ aim_analysis = NoTable

IdleAim ==
    /\ aim_xyz = <<>>
    /\ aim_files = <<>>
    /\ aim_pc = "idle"
    /\ aim_mol = NoTable
    /\ aim_i = 0
    /\ aim_list = <<>>
    /\ aim_analysis = NoTable

\* the cell that builds mol
ReadMol ==
    /\ aim_pc = "read_mol"
    /\ aim_mol' = read_mol(aim_xyz)
    /\ aim_pc' = "loop"
    /\ UNCHANGED <<aim_xyz, aim_files, aim_i, aim_list, aim_analysis>>

\* one iteration of for i, name in enumerate(sorted(...)); each entry of
\* the list also records the file it was read from
JoinCharge ==
    /\ aim_pc = "loop"
    /\ aim_i < Cardinality(DOMAIN aim_files)
    /\ LET name == sorted(DOMAIN aim_files)[aim_i + 1]
       IN  \E text_index \in IF Len(aim_files[name]) < NRows
                             THEN BOOLEAN ELSE {FALSE} :
              aim_list' =
                 Append(aim_list,
                        [name |-> name,
                         rows |-> join_charge(aim_mol,
                                     read_charge(aim_files[name], text_index),
                                     aim_i)])
    /\ aim_i' = aim_i + 1
    /\ UNCHANGED <<aim_xyz, aim_files, aim_pc, aim_mol, aim_analysis>>

\* aim_analysis = pd.concat(aim_analysis), which raises on an empty list
Concat ==
    /\ aim_pc = "loop"
    /\ aim_i >= Cardinality(DOMAIN aim_files)
    /\ IF aim_list = <<>>
       THEN aim_pc' = "error" /\ aim_analysis' = aim_analysis
       ELSE aim_pc' = "done" /\ aim_analysis' = concat(aim_list)
    /\ UNCHANGED <<aim_xyz, aim_files, aim_mol, aim_i, aim_list>>

NextAim ==
    \/ ReadMol /\ UNCHANGED <<molVars, trainVars, gridVars, cubeVars, ceilVars, scanVars, loadVars>>
    \/ JoinCharge /\ UNCHANGED <<molVars, trainVars, gridVars, cubeVars, ceilVars, scanVars, loadVars>>
    \/ Concat /\ UNCHANGED <<molVars, trainVars, gridVars, cubeVars, ceilVars, scanVars, loadVars>>

----------------------------------------------------------------------------
(* The C-C bond scan                                                       *)
(* Coordinates are signed floats, here decimals of two places; the density *)
(* at a point, which PySCF computes, is identified with the point.         *)

MaxCoord == 3

ScanPoints == 11

ScanDivisions == 10

\* mol_name_dict, in insertion order
mol_name_dict == << <<"ethane", "x">>, <<"ethene", "o">>, <<"ethine", "^">> >>

\* positions of an atom, in hundredths
AtomPositions ==
    { <<0, 0, 0>>, <<7, 21 - 100 * MaxCoord, 153>>,
      <<2 - 100 * MaxCoord, 70, 100 * MaxCoord>> }

Position(p) == [c \in 1..3 |-> float_of_centis(p[c])]

\* mol.atom_coords(): one row per atom; the third atom stands for the rest
AtomCoords ==
    { <<Position(ab[1]), Position(ab[2]), Position(<<500, 500, 500>>)>> :
         ab \in { p \in AtomPositions \X AtomPositions : p[1] # p[2] } }

\* a step taken as one part in as many as there are points
bond_step_per_point(c1, c2) ==
    << float_div(float_sub(c2[1], c1[1]), float_of_py_int(ScanPoints)),
       float_div(float_sub(c2[2], c1[2]), float_of_py_int(ScanPoints)),
       float_div(float_sub(c2[3], c1[3]), float_of_py_int(ScanPoints)) >>

\* d = c2 - c1; d = d / 10
bond_step(c1, c2) ==
    << float_div(float_sub(c2[1], c1[1]), float_of_py_int(ScanDivisions)),
       float_div(float_sub(c2[2], c1[2]), float_of_py_int(ScanDivisions)),
       float_div(float_sub(c2[3], c1[3]), float_of_py_int(ScanDivisions)) >>

\* r = c1 + np.arange(11).reshape(-1, 1) * d: an 11 x 3 array
bond_points(c1, d) ==
    LET ks == arange(0, ScanPoints, 1).values
    IN  [k \in 1..Len(ks) |->
            [c \in 1..3 |->
                float_add(c1[c], float_mul(float_of_py_int(ks[k]), d[c]))]]

\* np.arange(11) / 10
bond_abscissa ==
    LET ks == arange(0, ScanPoints, 1).values
    IN  [k \in 1..Len(ks) |->
            float_div(float_of_py_int(ks[k]), float_of_py_int(ScanDivisions))]

InitScan ==
    /\ scan_coords = <<>>
    /\ scan_pc = "loop"
    /\ scan_i = 0
    /\ scan_lines = <<>>
    /\ scan_legend = <<>>
    /\ scan_xlim = <<>>
    /\ scan_ylim = <<>>
    /\ scan_xlabel = ""
    /\ scan_saved = ""

IdleScan ==
    /\ scan_coords = <<>>
    /\ scan_pc = "idle"
    /\ scan_i = 0
    /\ scan_lines = <<>>
    /\ scan_legend = <<>>
    /\ scan_xlim = <<>>
    /\ scan_ylim = <<>>
    /\ scan_xlabel = ""
    /\ scan_saved = ""

\* one iteration of for mol_name, symbol in mol_name_dict.items(): the
\* molecule is read from its xyz file, and its line is plotted
ScanMolecule ==
    /\ scan_pc = "loop"
    /\ scan_i < Len(mol_name_dict)
    /\ \E coords \in AtomCoords :
       \E d \in {bond_step(coords[1], coords[2])} :
          /\ scan_coords' = Append(scan_coords, coords)
          /\ scan_lines' =
                Append(scan_lines,
                       [label |-> mol_name_dict[scan_i + 1][1],
                        marker |-> mol_name_dict[scan_i + 1][2],
                        x |-> bond_abscissa,
                        y |-> bond_points(coords[1], d)])
    /\ scan_i' = scan_i + 1
    /\ UNCHANGED <<scan_pc, scan_legend, scan_xlim, scan_ylim, scan_xlabel,
                   scan_saved>>

\* after the loop: ax.legend(), ax.set_ylim(-0.75, 0.5),
\* ax.set_xlim(0.1, 0.9), ax.set_xlabel(...) and plt.savefig(...); the y
\* label, tight_layout and show change neither the data nor the limits
ScanFinish ==
    /\ scan_pc = "loop"
    /\ scan_i >= Len(mol_name_dict)
    /\ scan_legend' = [l \in 1..Len(scan_lines) |-> scan_lines[l].label]
    /\ scan_ylim' = <<float_of_centis(-75), float_of_centis(50)>>
    /\ scan_xlim' = <<float_of_centis(10), float_of_centis(90)>>
    /\ scan_xlabel' = "scaled bond distance(d/|C-C|)"
    /\ scan_saved' = "./examples/cc_bond.density.png"
    /\ scan_pc' = "done"
    /\ UNCHANGED <<scan_coords, scan_i, scan_lines>>

NextScan ==
    \/ ScanMolecule /\ UNCHANGED <<molVars, trainVars, gridVars, cubeVars, ceilVars, aimVars, loadVars>>
    \/ ScanFinish /\ UNCHANGED <<molVars, trainVars, gridVars, cubeVars, ceilVars, aimVars, loadVars>>

----------------------------------------------------------------------------
(* load_molecule, in floats                                                *)
(* The cell of a molecule centred by ASE is orthorhombic; its lengths,     *)
(* extent + 2 * vacuum, are any floats: here decimals of two places and    *)
(* the floats next above them.                                             *)

MaxPaddedCentis == 478

PaddedCentis == ((MaxPaddedCentis - 4)..MaxPaddedCentis) \cup {645, 650}

\* grid_step of the two cells that call load_molecule: 0.25 and 0.05
GridStepCentis == {25, 5}

\* the float next above a positive float
float_succ(a) == RoundNat(BAdd(a.m, <<1>>), a.e, FALSE)

PaddedLengths ==
    LET literals == {float_literal(k) : k \in PaddedCentis}
    IN  literals \cup {float_succ(a) : a \in literals}

\* a Python int of at most two limbs as a number
BToInt(a) == Limb(a, 1) + Limb(a, 2) * Base

\* len(np.arange(0, l, grid_step)): ceil((stop - start) / step) in floats
arange_len(stop, step) == BToInt(math_ceil(fdiv(stop, step)))

InitLoad ==
    /\ lm_padded \in [1..3 -> PaddedLengths]
    /\ lm_grid_step \in {float_literal(k) : k \in GridStepCentis}
    /\ lm_pc = "start"
    /\ lm_counts = <<>>
    /\ lm_cell = <<>>
    /\ lm_shape = <<>>

IdleLoad ==
    /\ lm_padded = <<>>
    /\ lm_grid_step = NoFloat
    /\ lm_pc = "idle"
    /\ lm_counts = <<>>
    /\ lm_cell = <<>>
    /\ lm_shape = <<>>

\* load_molecule from the ceil_float calls on: the cell lengths are rounded
\* up, the cell is set and the grid is built over it
LoadMolecule ==
    /\ lm_pc = "start"
    /\ lm_counts' = [k \in 1..3 |->
                        BToInt(math_ceil(fdiv(lm_padded[k], lm_grid_step)))]
    /\ lm_cell' = [k \in 1..3 |-> ceil_float(lm_padded[k], lm_grid_step)]
    /\ lm_shape' = [k \in 1..3 |-> arange_len(lm_cell'[k], lm_grid_step)]
    /\ lm_pc' = "loaded"
    /\ UNCHANGED <<lm_padded, lm_grid_step>>

NextLoad ==
    \/ LoadMolecule /\ UNCHANGED <<molVars, trainVars, gridVars, cubeVars, ceilVars, aimVars, scanVars>>

InitSpecMol == InitMol /\ IdleTrain /\ InitGrid /\ IdleCube /\ IdleCeil /\ IdleAim /\ IdleScan /\ IdleLoad

SpecMol == InitSpecMol /\ [][NextMol]_vars

InitSpecTrain == InitTrain /\ IdleMol /\ InitGrid /\ IdleCube /\ IdleCeil /\ IdleAim /\ IdleScan /\ IdleLoad

InitSpecGrid == InitGrid /\ IdleMol /\ IdleTrain /\ IdleCube /\ IdleCeil /\ IdleAim /\ IdleScan /\ IdleLoad

InitSpecCube == InitCube /\ IdleMol /\ IdleTrain /\ InitGrid /\ IdleCeil /\ IdleAim /\ IdleScan /\ IdleLoad

SpecCube == InitSpecCube /\ [][NextCube]_vars

InitSpecCeil == InitCeil /\ IdleMol /\ IdleTrain /\ InitGrid /\ IdleCube /\ IdleAim /\ IdleScan /\ IdleLoad

SpecCeil == InitSpecCeil /\ [][NextCeil]_vars

SpecGrid == InitSpecGrid /\ [][NextGrid]_vars

SpecTrain == InitSpecTrain /\ [][NextTrain]_vars

InitSpecAim == IdleMol /\ IdleTrain /\ InitGrid /\ IdleCube /\ IdleCeil /\ InitAim /\ IdleScan /\ IdleLoad

SpecAim == InitSpecAim /\ [][NextAim]_vars

InitSpecScan == IdleMol /\ IdleTrain /\ InitGrid /\ IdleCube /\ IdleCeil /\ IdleAim /\ InitScan /\ IdleLoad

SpecScan == InitSpecScan /\ [][NextScan]_vars

InitSpecLoad == IdleMol /\ IdleTrain /\ InitGrid /\ IdleCube /\ IdleCeil /\ IdleAim /\ IdleScan /\ InitLoad

SpecLoad == InitSpecLoad /\ [][NextLoad]_vars

----------------------------------------------------------------------------
(* Claims                                                                  *)

(* Whole numbers of any size with a sign, to compare floats with exact     *)
(* fractions.                                                              *)
SInt(neg, mag) == [neg |-> neg /\ mag # <<>>, mag |-> mag]

SIntAdd(x, y) ==
    IF x.neg = y.neg THEN SInt(x.neg, BAdd(x.mag, y.mag))
    ELSE IF BCmp(x.mag, y.mag) >= 0 THEN SInt(x.neg, BSub(x.mag, y.mag))
    ELSE SInt(y.neg, BSub(y.mag, x.mag))

\* x * k, or -(x * k) with minus, for 0 <= k < Base
SIntTimes(x, k, minus) == SInt(x.neg # minus, BMulSmall(x.mag, k))

\* the value of the float a in units of 2^e0, for e0 <= a.e
InUnits(a, e0) == SInt(a.neg, BShl(a.m, a.e - e0))

(* C1 as stated: for every grid and every 3 x N index array with entries   *)
(* in range, __getitem__ returns N positions, position j being             *)
(* origin + (index[k][j] / shape[k])_k times the cell matrix.              *)
InRange3xN(x, shape) ==
    /\ x.kind = "rect"
    /\ Len(x.dims) = 2
    /\ x.dims[1] = 3
    /\ \A k \in 1..3 : \A j \in 1..x.dims[2] :
          /\ 0 <= x.flat[(k - 1) * x.dims[2] + j]
          /\ x.flat[(k - 1) * x.dims[2] + j] < shape[k]

\* coordinate c of origin + (index[k][j] * step / d[k])_k times the cell
\* matrix, as the exact fraction <<numerator, denominator>>
ExactPosition(x, j, c, step, d) ==
    LET n == x.dims[2]
        o == IF g_args.origin = NoOrigin THEN 0 ELSE g_args.origin[c]
        den == d[1] * d[2] * d[3]
        term(k) == x.flat[(k - 1) * n + j] * step * g_args.cell[k][c]
                      * (den \div d[k])
    IN  <<o * den + term(1) + term(2) + term(3), den>>

\* r - q[1] / q[2], times q[2], in units of 2^e0
OffExact(r, q, e0) ==
    SIntAdd(SIntTimes(InUnits(r, e0), q[2], FALSE),
            SInt(q[1] > 0, BShl(BFromInt(Abs(q[1])), -e0)))

\* the float r is the fraction q
EqualsExact(r, q) ==
    OffExact(r, q, IF r.e < 0 THEN r.e ELSE 0).mag = <<>>

\* the float r is off the fraction q by at most 2^-50 times bound
NearExact(r, q, bound) ==
    LET e0 == IF r.e < -(Precision - 3) THEN r.e ELSE -(Precision - 3)
    IN  BCmp(OffExact(r, q, e0).mag,
             BShl(BFromInt(bound * q[2]), -(Precision - 3) - e0)) <= 0

\* |origin[c]| + sum over k of |cell[k][c]|: no coordinate c of a position
\* of the grid is larger
CoordinateBound(c) ==
    Abs(IF g_args.origin = NoOrigin THEN 0 ELSE g_args.origin[c])
        + Abs(g_args.cell[1][c]) + Abs(g_args.cell[2][c])
        + Abs(g_args.cell[3][c])

PositionsAreFractional ==
    /\ last_out.raised = ""
    /\ Len(last_out.value) = last_idx.dims[2]
    /\ \A j \in 1..last_idx.dims[2] : \A c \in 1..3 :
          EqualsExact(last_out.value[j][c],
                      ExactPosition(last_idx, j, c, 1, g_self.shape))

C1_PositionFormula ==
    (g_status = "built" /\ InRange3xN(last_idx, g_self.shape))
        => PositionsAreFractional

\* every cell length is grid_step times the number of points of its axis
StepDividesCell ==
    \A k \in 1..3 :
        g_self.shape[k] * g_args.grid_step = lengths(g_args.cell)[k]

\* N positions, each coordinate within 2^-50 * CoordinateBound of
\* origin + (index[k][j] * step / d[k])_k times the cell matrix
PositionsNear(step, d) ==
    /\ last_out.raised = ""
    /\ Len(last_out.value) = last_idx.dims[2]
    /\ \A j \in 1..last_idx.dims[2] : \A c \in 1..3 :
          NearExact(last_out.value[j][c],
                    ExactPosition(last_idx, j, c, step, d),
                    CoordinateBound(c))

(* C1, amended: for every grid and every 3 x N index array with N >= 1 and *)
(* entries in range, __getitem__ returns N positions of float64            *)
(* coordinates, position j being                                           *)
(* origin + (index[k][j] * grid_step / length k)_k times the cell matrix   *)
(* up to rounding: each coordinate c is off it by at most 2^-50 times      *)
(* |origin[c]| + sum over k of |cell[k][c]|.  The fraction is              *)
(* index[k][j] / shape[k] on the grids whose cell lengths are whole        *)
(* multiples of grid_step (shape[k] * grid_step = length k on each axis).  *)
(* The empty 3 x 0 nested list raises IndexError.                          *)
C1_PositionFormulaOnMultiples ==
    (g_status = "built" /\ InRange3xN(last_idx, g_self.shape)) =>
        IF last_idx.dims[2] = 0
        THEN last_out.raised = "IndexError"
        ELSE /\ PositionsNear(g_args.grid_step, lengths(g_args.cell))
             /\ StepDividesCell => PositionsNear(1, g_self.shape)

\* two positions of a skewed cell with a given origin, away from index 0
C1_Witness ==
    /\ g_status = "built"
    /\ StepDividesCell
    /\ InRange3xN(last_idx, g_self.shape)
    /\ last_idx.dims[2] >= 2
    /\ \A k \in 1..3 : \E j \in 1..last_idx.dims[2] :
          last_idx.flat[(k - 1) * last_idx.dims[2] + j] > 0
    /\ g_args.cell \in SkewCells
    /\ g_args.origin # NoOrigin
    /\ last_out.raised = ""
    \* a coordinate that float64 does not hold exactly
    /\ \E j \in 1..last_idx.dims[2] : \E c \in 1..3 :
          ~EqualsExact(last_out.value[j][c],
                       ExactPosition(last_idx, j, c, 1, g_self.shape))

\* the cell, scaled_grid_vectors, shape and origin the constructor gave
FreshGrid == g_made

Is3xNArgument(x) == x.kind = "rect" /\ Len(x.dims) = 2 /\ x.dims[1] = 3

(* C4 as stated: an argument that is not 3 x N raises NotImplementedError  *)
(* before any grid vector is read and leaves the grid unchanged; every     *)
(* 3 x N argument passes the check.                                        *)
C4_NotImplementedForNon3xN ==
    (g_status = "built" /\ last_idx # NoArg) =>
        /\ g_self = FreshGrid
        /\ IF Is3xNArgument(last_idx)
           THEN last_out.raised # "NotImplementedError"
           ELSE last_out.raised = "NotImplementedError" /\ last_out.reads = 0

(* C4, amended: an argument that is not 3 x N raises before any grid       *)
(* vector is read and leaves the grid unchanged: NotImplementedError, or   *)
(* for a ragged nested list the ValueError of np.array where numpy refuses *)
(* to convert it; every 3 x N argument passes the check.                   *)
C4_RaisesBeforeAnyRead ==
    (g_status = "built" /\ last_idx # NoArg) =>
        /\ g_self = FreshGrid
        /\ IF Is3xNArgument(last_idx)
           THEN last_out.raised \notin {"NotImplementedError", "ValueError"}
           ELSE /\ last_out.reads = 0
                /\ IF last_idx.kind = "ragged"
                   THEN last_out.raised \in {"NotImplementedError",
                                             "ValueError"}
                   ELSE last_out.raised = "NotImplementedError"

\* a 3 x 1 x 1 argument was refused on a grid that has points
C4_Witness ==
    /\ g_status = "built"
    /\ last_idx.kind = "rect"
    /\ last_idx.dims = <<3, 1, 1>>
    /\ last_out.raised = "NotImplementedError"
    /\ last_out.reads = 0
    /\ Product(g_self.shape) > 0

(* C5: setting up a grid whose dimension along some axis is not positive   *)
(* fails with an error: no grid is built with zero points on an axis.      *)
C5_NonPositiveDimensionFails ==
    g_status = "built" => \A k \in 1..3 : g_self.shape[k] > 0

\* for axis k and index i (from 0) along it, the three float64 products
\* of i * grid_step / length k with the entries of cell vector k
AxisProducts(m) ==
    [k \in 1..3 |->
        [i \in 1..GridShape(m)[k] |->
            [c \in 1..3 |->
                float_mul(float_div(float_of_py_int((i - 1) * m.grid_step),
                                    float_of_py_int(lengths(m.cell)[k])),
                          float_of_py_int(m.cell[k][c]))]]]

\* the origin of molecule m in float64
OriginOf(m) ==
    <<float_of_py_int(m.origin[1]), float_of_py_int(m.origin[2]),
      float_of_py_int(m.origin[3])>>

\* the position of grid point (i0, i1, i2): the float64 sum of its three
\* axis products t and the origin o
GridPointPosition(t, o, i) ==
    [c \in 1..3 |->
        float_add(float_add(float_add(t[1][i[1] + 1][c], t[2][i[2] + 1][c]),
                            t[3][i[3] + 1][c]),
                  o[c])]

\* the grid index the k-th value (k from 0) of an na x nb x nc cube is for
RowMajorIndex(k, shape) ==
    <<k \div (shape[2] * shape[3]), (k \div shape[3]) % shape[2],
      k % shape[3]>>

\* whether the probe loop of list position p has run to its end
ProbeLoopOver(p) ==
    \/ p < c_i /\ c_pc # "error"
    \/ p = c_i /\ c_pc \in {"head", "done"}
    \/ p = c_i /\ c_pc = "probe" /\ c_slice >= num_slices(cmols[p])

(* C2: the values written for a molecule, in call order over the probe     *)
(* batches, are the values of the grid points in row-major order (x        *)
(* slowest, z fastest): the k-th value belongs to grid index               *)
(* (k div (nb*nc), (k div nc) mod nb, k mod nc), none skipped or repeated, *)
(* and once the probe loop is over there are exactly na*nb*nc of them.     *)
C2_RowMajorValues ==
    \A p \in 1..Len(cmols) :
        LET m == cmols[p]
        IN  m.name \in DOMAIN cube_files =>
              LET f == cube_files[m.name]
              IN  /\ f.shape = GridShape(m)
                  /\ Len(f.values) <= Product(f.shape)
                  /\ \E t \in {AxisProducts(m)}, o \in {OriginOf(m)} :
                        \A k \in 1..Len(f.values) :
                              f.values[k] =
                                GridPointPosition(t, o,
                                    RowMajorIndex(k - 1, f.shape))
                  /\ ProbeLoopOver(p) => Len(f.values) = Product(f.shape)

\* a cube of 1001 grid points complete after a batch of 1000 and one of 1
C2_Witness ==
    \E p \in 1..Len(cmols) :
        /\ cmols[p].name = "over"
        /\ ProbeLoopOver(p)
        /\ probe_evals[p] = 2
        /\ "over" \in DOMAIN cube_files
        /\ Len(cube_files["over"].values) = 1001

(* C6: when the cube path of a molecule is not writable, its step fails    *)
(* at the creation of the writer: the loop stops there with an error, the  *)
(* model was not evaluated on any probe batch of that molecule and no      *)
(* value was appended for it.                                              *)
C6_FailsAtWriterCreation ==
    \A p \in 1..Len(cmols) :
        cmols[p].name \in unwritable =>
            /\ probe_evals[p] = 0
            /\ cmols[p].name \notin DOMAIN cube_files
            /\ c_i <= p
            /\ c_i = p => c_pc \in {"create", "error"}

\* the second molecule's writer could not be created, after a first cube
\* was written in full
C6_Witness ==
    /\ c_pc = "error"
    /\ c_i = 2
    /\ cmols[2].name \in unwritable
    /\ probe_evals[1] >= 1
    /\ probe_evals[2] = 0

(* C7: the selection keeps only molecules made of C, H, N and O:           *)
(* has_not_allowed_atoms(mol, allowed) is TRUE exactly when mol has an     *)
(* atom whose symbol is not allowed, and no molecule with such an atom is  *)
(* in embed_mols.                                                          *)
C7_OnlyAllowedAtomsKept ==
    /\ \A k \in 1..sel_idx :
          smi[k] # None =>
            (has_not_allowed_atoms(smi[k], AllowedElements)
               <=> has_not_allowed_atoms_over_symbols(smi[k], AllowedElements))
    /\ \A k \in 1..Len(embed_mols) :
          \A a \in 1..Len(embed_mols[k].atoms) :
              InSeq(embed_mols[k].atoms[a], AllowedElements)

(* C8: every molecule appended to embed_mols, and so every molecule        *)
(* written to ./mol, has fewer than 40 atoms.                              *)
C8_FewerThan40Atoms ==
    /\ \A k \in 1..Len(embed_mols) : Len(embed_mols[k].atoms) < DocMaxAtoms
    /\ \A k \in 1..Len(mol_files) : Len(mol_files[k].atoms) < DocMaxAtoms

(* C9: the learning rate only goes down, and only the scheduler step       *)
(* driven by the test metric changes it: the rate printed at an epoch is   *)
(* never greater than the one printed at the epoch before, and after a     *)
(* training pass the optimizer still holds the rate that was printed.      *)
C9_LrOnlyDecreases ==
    /\ (prev_reported # NoLr => reported <= prev_reported)
    /\ (reported # NoLr => opt_lr = reported)
    /\ (reported = NoLr => opt_lr = LearningRate)

\* a later epoch, after a training pass, with a learning rate that the
\* scheduler has reduced
C9_Witness ==
    /\ train_pc = "test"
    /\ prev_reported # NoLr
    /\ reported < prev_reported
    /\ opt_lr = reported

(* C10: for step_size > 0 the result r of ceil_float(x, step_size) is the  *)
(* smallest multiple of step_size not below x, x <= r < x + step_size, and *)
(* ceil_float applied to r with the same step_size returns r.              *)
C10_SmallestMultipleIdempotent ==
    /\ cf_pc \in {"once", "twice"} =>
          /\ DyadicCmp(cf_x, cf_r) <= 0
          /\ DyadicCmp(cf_r, DyadicSum(cf_x, cf_step_size)) < 0
    /\ cf_pc = "twice" => cf_rr = cf_r

\* what the Ex1 cell never does, whatever its outcome: go past the first
\* molecule, create a second writer, evaluate the model on a later molecule
Ex1StaysOnFirst ==
    /\ c_i <= 1
    /\ Cardinality(DOMAIN cube_files) <= 1
    /\ Cardinality(xyz_files) <= 1
    /\ \A p \in 2..Len(cmols) : atom_evals[p] = 0 /\ probe_evals[p] = 0
    /\ Len(cmols) = 0 => DOMAIN cube_files = {} /\ xyz_files = {}

\* one cube file and one xyz file, both of the first molecule
Ex1WroteFirst ==
    /\ DOMAIN cube_files = {cmols[1].name}
    /\ xyz_files = {cmols[1].name}

(* C11 as stated: once the Ex1 cell has ended on a sugbench of at least    *)
(* one molecule, exactly one cube writer was created and one cube file and *)
(* one xyz file were written, and the model was never evaluated on a       *)
(* second molecule; with an empty sugbench nothing is written.             *)
C11_Ex1ExactlyOne ==
    cube_loop = "ex1" =>
        /\ Ex1StaysOnFirst
        /\ c_pc \in {"done", "error"} /\ Len(cmols) >= 1 => Ex1WroteFirst

(* C11 amended: the Ex1 cell never goes past the first molecule and never  *)
(* evaluates the model on a second one; when it ends without an error on   *)
(* a sugbench of at least one molecule it has written exactly one cube     *)
(* file and one xyz file, those of the first molecule; when the creation   *)
(* of the writer fails it has written no file at all.                      *)
C11_Ex1StopsAfterFirst ==
    cube_loop = "ex1" =>
        /\ Ex1StaysOnFirst
        /\ c_pc = "done" /\ Len(cmols) >= 1 => Ex1WroteFirst
        /\ c_pc = "error" => DOMAIN cube_files = {} /\ xyz_files = {}

\* the Ex1 cell over two molecules, ended after the first
C11_Witness ==
    /\ cube_loop = "ex1"
    /\ Len(cmols) = 2
    /\ c_pc = "done"
    /\ c_i = 1
    /\ probe_evals[1] >= 1
    /\ Ex1WroteFirst

\* the rows of the table of the p-th file read carry the atoms of the xyz
\* file in order, each with its id, and the rank of the file as scale
IdsAndScale(p) ==
    /\ Len(aim_list[p].rows) = Len(aim_xyz)
    /\ \A k \in 1..Len(aim_xyz) :
          /\ aim_list[p].rows[k].id = <<aim_xyz[k], k>>
          /\ aim_list[p].rows[k].scale =
                Cardinality({g \in DOMAIN aim_files : g < aim_list[p].name})

\* the table after pd.concat is the tables of the list one after the other
ConcatInReadOrder ==
    aim_pc = "done" =>
        /\ Len(aim_list) = Cardinality(DOMAIN aim_files)
        /\ Len(aim_analysis) = Len(aim_list) * Len(aim_xyz)
        /\ \A p \in 1..Len(aim_list) : \A k \in 1..Len(aim_xyz) :
              aim_analysis[(p - 1) * Len(aim_xyz) + k] = aim_list[p].rows[k]

(* C12 as stated: every atom of the xyz file, identified by its element    *)
(* symbol followed by its 1-based position, is paired in each .charge file *)
(* with the charge of the atom that has the same 1-based number, and the   *)
(* scale of the rows of a file is the 0-based rank of its name.            *)
C12_ChargeOfSameAtomNumber ==
    /\ \A p \in 1..Len(aim_list) :
          /\ IdsAndScale(p)
          /\ \A k \in 1..Len(aim_xyz) :
                k <= Len(aim_files[aim_list[p].name]) =>
                    aim_list[p].rows[k].charge =
                        aim_files[aim_list[p].name][k]
    /\ ConcatInReadOrder

(* C12 amended: ids and scale as stated; the charge paired with atom k is  *)
(* that of atom number k of the file for the first 20 atoms of a file that *)
(* has at least 20 atom rows; an atom after the 20th gets no charge.       *)
C12_ChargeOfSameAtomNumberUpTo20 ==
    /\ \A p \in 1..Len(aim_list) :
          /\ IdsAndScale(p)
          /\ \A k \in 1..Len(aim_xyz) :
                /\ k <= NRows /\ Len(aim_files[aim_list[p].name]) >= NRows =>
                      aim_list[p].rows[k].charge =
                          aim_files[aim_list[p].name][k]
                /\ k > NRows => aim_list[p].rows[k].charge = NaN
    /\ ConcatInReadOrder

\* a dimer of 20 atoms joined with the charges of two files of 20 atoms
C12_Witness ==
    /\ aim_pc = "done"
    /\ Len(aim_xyz) = NRows
    /\ Len(aim_list) >= 2
    /\ \A f \in DOMAIN aim_files : Len(aim_files[f]) = NRows
    /\ aim_analysis[2 * NRows].charge = aim_files[aim_list[2].name][NRows]
    /\ aim_analysis[2 * NRows].scale = 1

Min3(a, b, c) ==
    IF a <= b /\ a <= c THEN a ELSE IF b <= c THEN b ELSE c

\* 10 * r - ((10 - k) * c1 + k * c2) in units of 2^e0: ten times what the
\* coordinate r is off fraction k/10 of the way from c1 to c2
OffFraction(r, c1, c2, k, e0) ==
    SIntAdd(SIntTimes(InUnits(r, e0), ScanDivisions, FALSE),
            SIntAdd(SIntTimes(InUnits(c1, e0), ScanDivisions - k, TRUE),
                    SIntTimes(InUnits(c2, e0), k, TRUE)))

\* r is that fraction of the way exactly
AtFraction(r, c1, c2, k) ==
    OffFraction(r, c1, c2, k, Min3(r.e, c1.e, c2.e)).mag = <<>>

\* r is off it by at most 2^-50 times the larger of |c1| and |c2|
NearFraction(r, c1, c2, k) ==
    LET e0 == Min3(r.e, c1.e, c2.e)
        m1 == InUnits(c1, e0).mag
        m2 == InUnits(c2, e0).mag
        larger == IF BCmp(m1, m2) >= 0 THEN m1 ELSE m2
    IN  BCmp(BShl(OffFraction(r, c1, c2, k, e0).mag, Precision - 3),
             BMulSmall(larger, ScanDivisions)) <= 0

\* the abscissa x lies within the x limits of the saved figure
InXLimits(x) ==
    \/ scan_xlim = <<>>
    \/ /\ DyadicCmp(Mag(scan_xlim[1]), Mag(x)) <= 0
       /\ DyadicCmp(Mag(x), Mag(scan_xlim[2])) <= 0

\* every line has 11 points against the abscissas 0, 0.1, ..., 1 in order,
\* under the name and marker of its molecule
LinesOverTenths ==
    \A l \in 1..Len(scan_lines) :
        /\ scan_lines[l].label = mol_name_dict[l][1]
        /\ scan_lines[l].marker = mol_name_dict[l][2]
        /\ Len(scan_lines[l].y) = ScanPoints
        /\ Len(scan_lines[l].x) = ScanPoints
        /\ \A k \in 0..(ScanPoints - 1) :
              scan_lines[l].x[k + 1] = float_of_centis(10 * k)

(* C13 as stated: in every line of the bond scan the k-th probe point,     *)
(* k = 0..10, lies at fraction k/10 of the segment from atom 0 to atom 1,  *)
(* point 0 is the position of atom 0 and point 10 that of atom 1, and the  *)
(* 11 points are plotted against the abscissa k/10 in the same order: all  *)
(* 11 are within the limits of the figure.                                 *)
C13_BondScanFractions ==
    /\ LinesOverTenths
    /\ \A l \in 1..Len(scan_lines) :
          /\ \A k \in 0..(ScanPoints - 1) : \A c \in 1..3 :
                AtFraction(scan_lines[l].y[k + 1][c], scan_coords[l][1][c],
                           scan_coords[l][2][c], k)
          /\ scan_lines[l].y[1] = scan_coords[l][1]
          /\ scan_lines[l].y[ScanPoints] = scan_coords[l][2]
          /\ \A k \in 1..ScanPoints : InXLimits(scan_lines[l].x[k])

(* C13, amended: in every line of the bond scan point 0 is the position of *)
(* atom 0 exactly, and each coordinate of point k, k = 0..10, is off       *)
(* fraction k/10 of the way from atom 0 to atom 1 by at most 2^-50 times   *)
(* the larger magnitude of the two atoms' coordinates (point 10 need not   *)
(* be the position of atom 1); the 11 points are given to the plot against *)
(* the abscissas 0, 0.1, ..., 1 in the same order, and once the x limits   *)
(* are set to 0.1 and 0.9 exactly the points 1..9 are within them.         *)
C13_BondScanNearFractions ==
    /\ LinesOverTenths
    /\ \A l \in 1..Len(scan_lines) :
          /\ \A k \in 0..(ScanPoints - 1) : \A c \in 1..3 :
                NearFraction(scan_lines[l].y[k + 1][c], scan_coords[l][1][c],
                             scan_coords[l][2][c], k)
          /\ scan_lines[l].y[1] = scan_coords[l][1]
          /\ scan_pc = "done" =>
                {k \in 1..ScanPoints : InXLimits(scan_lines[l].x[k])}
                    = 2..(ScanPoints - 1)
    /\ scan_pc = "done" =>
          /\ scan_legend = [l \in 1..Len(mol_name_dict) |-> mol_name_dict[l][1]]
          /\ scan_saved # ""

\* the figure was saved with three lines; the last point of the third line
\* is not the position of atom 1, and that of the first line is
C13_Witness ==
    /\ scan_pc = "done"
    /\ Len(scan_lines) = 3
    /\ scan_lines[3].y[ScanPoints] # scan_coords[3][2]
    /\ scan_lines[1].y[ScanPoints] = scan_coords[1][2]
    /\ \E c \in 1..3 : scan_coords[3][1][c].neg # scan_coords[3][2][c].neg

(* C14: for every molecule load_molecule returns, each cell length is an   *)
(* integer multiple of grid_step and not shorter than the padded length    *)
(* ASE computed, and the grid has exactly cell length / grid_step points   *)
(* along each axis, so that shape[k] * grid_step equals cell length k.     *)
C14_CellMultipleOfGridStep ==
    lm_pc = "loaded" =>
        \A k \in 1..3 :
            /\ lm_cell[k] = fmul(float_of_int(BFromInt(lm_counts[k])),
                                 lm_grid_step)
            /\ DyadicCmp(lm_padded[k], lm_cell[k]) <= 0
            /\ lm_shape[k] = lm_counts[k]
            /\ fmul(float_of_int(BFromInt(lm_shape[k])), lm_grid_step)
                  = lm_cell[k]

====
